---- MODULE Spec2Model ----
(***************************************************************************)
(* A model of the lazy expression-tree core of bigframes:                  *)
(*   bigframes/core.py         BigFramesExpr (the immutable plan node)     *)
(*   bigframes/core/blocks.py  Block (the mutable handle over a plan)      *)
(* Python objects live in heaps: an object's identity is its position in   *)
(* the heap, so that sharing, aliasing and in-place mutation are visible.  *)
(***************************************************************************)
EXTENDS Integers, Sequences, FiniteSets, TLC

VARIABLES
    exprs,      \* heap of BigFramesExpr objects, in allocation order
    blocks,     \* heap of Block objects, in allocation order
    idxs,       \* heap of ImplicitJoiner / Index objects (slot -> object)
    nexec,      \* number of queries the remote engine has executed
    globals,    \* module-level objects: locks, the logged method list, the
                \* global session, the default options of create_bqml_model
    threads,    \* each thread's position in the function it runs, and its locals
    last        \* the last call: operation, arguments, outcome, return value

vars == <<exprs, blocks, idxs, nexec, globals, threads, last>>

----------------------------------------------------------------------------
(* Bounds of the model.                                                    *)

MaxExprs == 2
MaxTrees == 3
MaxBlocks == 2
MaxQueries == 2
MaxLen == 2
MaxValueCols == 1

----------------------------------------------------------------------------
(* The remote table and the column expressions callers build from it.      *)

\* The table bound by the session: its native column order and its rows.
TableColumns == <<"id", "val", "w">>
TableData == [id |-> <<1, 2, 3>>, val |-> <<10, 20, 30>>, w |-> <<7, 8, 9>>]

\* table[key]: the ibis column expression of a base column.
Table__getitem__(table, key) == [name |-> key, tbl |-> table, base |-> key]

\* Column expressions a caller can hand in: a base column, and an expression
\* over another base column that carries the same name.
ColumnPool ==
    { Table__getitem__("T", "val"),
      [name |-> "val", tbl |-> "T", base |-> "w"] }

\* Column names a caller can ask for; "zz" is a name no expression carries.
KeyPool == {"val", "w", "zz"}

\* Lists of at most n elements of S.
SeqsUpTo(S, n) == UNION {[1..k -> S] : k \in 0..n}

ColumnLists == SeqsUpTo(ColumnPool, MaxLen)
ValueColumnLists == SeqsUpTo(ColumnPool, MaxValueCols)
CopyValueColumnLists == SeqsUpTo({Table__getitem__("T", "val")}, MaxValueCols)
KeyLists == SeqsUpTo(KeyPool, MaxLen)

\* A column expression rooted at another table U, and the lists a caller can
\* build with it: alone, and next to a column of T.
OtherTableColumn == [name |-> "u", tbl |-> "U", base |-> "val"]
MixedColumnLists ==
    { <<OtherTableColumn>>, <<Table__getitem__("T", "val"), OtherTableColumn>> }

\* Values assigned to Block.index_columns.
IndexColumnChoices == {<<>>, <<"id">>, <<"val">>, <<"id", "val">>}
CopyIndexColumnChoices == {<<>>, <<"id">>, <<"id", "val">>}

\* Display names a caller assigns to an Index.
DisplayNames == {"label"}

\* The values the engine returns for a column expression, in row order.
EngineEval(c) == TableData[c.base]

----------------------------------------------------------------------------
(* bigframes/core.py: BigFramesExpr                                        *)

Names(cols) == {cols[i].name : i \in DOMAIN cols}

\* Position of the entry a dict comprehension keeps for a key: the last one.
LastIndex(cols, n) ==
    CHOOSE i \in DOMAIN cols :
        /\ cols[i].name = n
        /\ \A j \in DOMAIN cols : cols[j].name = n => j <= i

\* {column.get_name(): column for column in self._columns}
ColumnNames(cols) == [n \in Names(cols) |-> cols[LastIndex(cols, n)]]

\* BigFramesExpr.__init__(session, table, columns=None)
BigFramesExpr_reversed(table, hasColumns, columns) ==
    LET n == Len(TableColumns)
        cs == IF ~hasColumns
              THEN [k \in DOMAIN TableColumns |->
                        Table__getitem__(table, TableColumns[n + 1 - k])]
              ELSE columns
    IN  [table |-> table, columns |-> cs, column_names |-> ColumnNames(cs)]

BigFramesExpr(table, hasColumns, columns) ==
    LET cs == IF ~hasColumns
              THEN [k \in DOMAIN TableColumns |->
                        Table__getitem__(table, TableColumns[k])]
              ELSE columns
    IN  [table |-> table, columns |-> cs, column_names |-> ColumnNames(cs)]

\* BigFramesExpr.get_column(key): the lookup raises KeyError on a miss.
HasColumn(e, key) == key \in DOMAIN e.column_names
get_column(e, key) == e.column_names[key]

\* BigFramesExpr.projection(columns) on the tree at heap position t: the heap
\* after the call; the new tree is its last element.
projection_in_place(h, t, columns) ==
    Append([h EXCEPT ![t] = BigFramesExpr(h[t].table, TRUE, columns)],
           BigFramesExpr(h[t].table, TRUE, columns))

projection_stacked(h, t, columns) ==
    Append(h, BigFramesExpr(h[t].table, TRUE, h[t].columns \o columns))

projection(h, t, columns) ==
    Append(h, BigFramesExpr(h[t].table, TRUE, columns))

\* Table.select as to_ibis_expr calls it: ibis builds the selection locally and
\* refuses an empty one (IbisTypeError: You must select at least one column),
\* one with an expression that does not originate from the table
\* (RelationError) and one in which two columns carry the same name
\* (IntegrityError: Duplicate column name(s)); nothing has been sent to the
\* engine at that point.
SelectOutcome(e) ==
    IF Len(e.columns) = 0 THEN "IbisTypeError"
    ELSE IF \E k \in DOMAIN e.columns : e.columns[k].tbl # e.table THEN "RelationError"
    ELSE IF Cardinality(Names(e.columns)) # Len(e.columns) THEN "IntegrityError"
    ELSE "ok"

\* BigFramesExpr.to_ibis_expr(): the selection over the base table.
to_ibis_expr(e) == [table |-> e.table, select |-> e.columns]

\* What executing a table expression returns: one data column per selected
\* expression, in list order.
Execute(q) ==
    [columns |-> [k \in DOMAIN q.select |-> q.select[k].name],
     data |-> [k \in DOMAIN q.select |-> EngineEval(q.select[k])],
     index |-> <<>>,
     index_name |-> ""]

----------------------------------------------------------------------------
(* bigframes/core/indexes: the two index classes Block uses.               *)

NoName == "None"

\* ImplicitJoiner(expr): row identity without a label column; it carries no
\* name attribute.
ImplicitJoiner(expr) ==
    [kind |-> "ImplicitJoiner", expr |-> expr, index_column |-> "",
     has_name |-> FALSE, name |-> NoName]

\* Index(expr, index_column): one label column, with a display name.
Index(expr, index_column) ==
    [kind |-> "Index", expr |-> expr, index_column |-> index_column,
     has_name |-> TRUE, name |-> NoName]

\* An index slot no Block refers to (the object has been reclaimed).
FreeSlot ==
    [kind |-> "free", expr |-> 0, index_column |-> "",
     has_name |-> FALSE, name |-> NoName]

IdxSlots == 1..(MaxBlocks + 1)

Referenced(bs) == {bs[b].index : b \in DOMAIN bs}

\* Where a newly created index object is stored: the first slot that holds no
\* live object.
NewSlot(w) ==
    CHOOSE s \in IdxSlots :
        /\ s \notin Referenced(w.blocks)
        /\ \A r \in IdxSlots : r \notin Referenced(w.blocks) => s <= r

\* Reference counting: an index object no Block refers to is reclaimed.  The
\* live objects are kept in the order in which the Blocks refer to them; which
\* Blocks share one index object is preserved.
FirstHolder(bs, b) == CHOOSE c \in DOMAIN bs :
    /\ bs[c].index = bs[b].index
    /\ \A d \in DOMAIN bs : bs[d].index = bs[b].index => c <= d

SlotAfter(bs, b) == Cardinality({FirstHolder(bs, c) : c \in 1..FirstHolder(bs, b)})

Collect(w) ==
    LET bs == w.blocks
        live == {SlotAfter(bs, b) : b \in DOMAIN bs}
        holder(s) == CHOOSE b \in DOMAIN bs : SlotAfter(bs, b) = s
    IN  [w EXCEPT
          !.idxs = [s \in IdxSlots |->
              IF s \in live THEN w.idxs[bs[holder(s)].index] ELSE FreeSlot],
          !.blocks = [b \in DOMAIN bs |-> [bs[b] EXCEPT !.index = SlotAfter(bs, b)]]]

----------------------------------------------------------------------------
(* bigframes/core/blocks.py: Block.  A method is an operator from the      *)
(* world w = [exprs, blocks, idxs, out] before the call to the world after *)
(* it; out is "ok" or the exception the call raised.                       *)

\* Block._reset_index()
_reset_index_keeps_labeled(w, b) ==
    LET expr == w.blocks[b].expr
        columns == w.blocks[b].index_columns
        s == NewSlot(w)
    IN  IF Len(columns) = 0
        THEN [w EXCEPT !.idxs[s] = ImplicitJoiner(expr), !.blocks[b].index = s]
        ELSE IF Len(columns) = 1
        THEN LET old == w.idxs[w.blocks[b].index]
             IN  IF old.has_name THEN w
                 ELSE [w EXCEPT !.idxs[s] = [Index(expr, columns[1])
                                                EXCEPT !.name = columns[1]],
                                !.blocks[b].index = s]
        ELSE [w EXCEPT !.out = "NotImplementedError"]

_reset_index_renames(w, b) ==
    LET expr == w.blocks[b].expr
        columns == w.blocks[b].index_columns
        s == NewSlot(w)
    IN  IF Len(columns) = 0
        THEN [w EXCEPT !.idxs[s] = ImplicitJoiner(expr), !.blocks[b].index = s]
        ELSE IF Len(columns) = 1
        THEN [w EXCEPT !.idxs[s] = [Index(expr, columns[1]) EXCEPT !.name = columns[1]],
                       !.blocks[b].index = s]
        ELSE [w EXCEPT !.out = "NotImplementedError"]

_reset_index(w, b) ==
    LET expr == w.blocks[b].expr
        columns == w.blocks[b].index_columns
        s == NewSlot(w)
    IN  IF Len(columns) = 0
        THEN [w EXCEPT !.idxs[s] = ImplicitJoiner(expr), !.blocks[b].index = s]
        ELSE IF Len(columns) = 1
        THEN LET old == w.idxs[w.blocks[b].index]
                 name == IF old.has_name THEN old.name ELSE columns[1]
             IN  [w EXCEPT !.idxs[s] = [Index(expr, columns[1]) EXCEPT !.name = name],
                           !.blocks[b].index = s]
        ELSE [w EXCEPT !.out = "NotImplementedError"]

\* Block.__init__(expr, index_columns); copy_of records which Block a copy
\* was made from (0: none).  A constructor that raises leaves no object.
Block(w, expr, index_columns) ==
    LET b == Len(w.blocks) + 1
        s == NewSlot(w)
        w1 == [w EXCEPT
                 !.idxs[s] = ImplicitJoiner(expr),
                 !.blocks = Append(@, [expr |-> expr,
                                       index |-> s,
                                       index_columns |-> index_columns,
                                       copy_of |-> 0])]
        w2 == _reset_index(w1, b)
    IN  IF w2.out = "ok" THEN w2 ELSE [w EXCEPT !.out = w2.out]

\* Block.index = value (value: the slot of an index object)
set_index(w, b, v) ==
    LET value == w.idxs[v]
    IN  [w EXCEPT !.blocks[b].expr = value.expr,
                  !.blocks[b].index_columns =
                      IF value.kind = "Index" THEN <<value.index_column>> ELSE <<>>,
                  !.blocks[b].index = v]

\* Block.index_columns = value
set_index_columns(w, b, value) ==
    _reset_index([w EXCEPT !.blocks[b].index_columns = value], b)

\* Block.expr = expr
set_expr(w, b, expr) ==
    _reset_index([w EXCEPT !.blocks[b].expr = expr], b)

\* Block.replace_value_columns(value_columns)
replace_value_columns_values_first(w, b, value_columns) ==
    LET t == w.blocks[b].expr
        e == w.exprs[t]
        ic == w.blocks[b].index_columns
    IN  IF \E k \in DOMAIN ic : ~HasColumn(e, ic[k])
        THEN [w EXCEPT !.out = "KeyError"]
        ELSE LET columns == value_columns
                              \o [k \in DOMAIN ic |-> get_column(e, ic[k])]
                 h == projection(w.exprs, t, columns)
             IN  set_expr([w EXCEPT !.exprs = h], b, Len(h))

replace_value_columns(w, b, value_columns) ==
    LET t == w.blocks[b].expr
        e == w.exprs[t]
        ic == w.blocks[b].index_columns
    IN  IF \E k \in DOMAIN ic : ~HasColumn(e, ic[k])
        THEN [w EXCEPT !.out = "KeyError"]
        ELSE LET columns == [k \in DOMAIN ic |-> get_column(e, ic[k])]
                              \o value_columns
                 h == projection(w.exprs, t, columns)
             IN  set_expr([w EXCEPT !.exprs = h], b, Len(h))

\* Block.copy(value_columns=None)
copy_replaces_self(w, b, hasValueColumns, value_columns) ==
    LET c == Len(w.blocks) + 1
        w1 == Block(w, w.blocks[b].expr, w.blocks[b].index_columns)
        w2 == [w1 EXCEPT !.blocks[c].copy_of = b]
        w3 == replace_value_columns(w2, b, value_columns)
    IN  IF w1.out # "ok" THEN w1
        ELSE IF ~hasValueColumns THEN w2
        ELSE IF w3.out = "ok" THEN w3
        ELSE [w3 EXCEPT !.blocks = SubSeq(@, 1, c - 1)]

copy(w, b, hasValueColumns, value_columns) ==
    LET c == Len(w.blocks) + 1
        w1 == Block(w, w.blocks[b].expr, w.blocks[b].index_columns)
        w2 == [w1 EXCEPT !.blocks[c].copy_of = b]
        w3 == replace_value_columns(w2, c, value_columns)
    IN  IF w1.out # "ok" THEN w1
        ELSE IF ~hasValueColumns THEN w2
        ELSE IF w3.out = "ok" THEN w3
        ELSE [w3 EXCEPT !.blocks = SubSeq(@, 1, c - 1)]

----------------------------------------------------------------------------
(* Block.compute and pandas' DataFrame.set_index.                          *)

\* The positions of seq, in order, whose element is not in S.
RECURSIVE KeepNotIn(_, _, _)
KeepNotIn(seq, S, k) ==
    IF k > Len(seq) THEN <<>>
    ELSE (IF seq[k] \in S THEN <<>> ELSE <<k>>) \o KeepNotIn(seq, S, k + 1)

ColumnPosition(frame, name) == CHOOSE k \in DOMAIN frame.columns : frame.columns[k] = name

\* DataFrame.set_index(keys): the key columns become the row labels, one level
\* per key, and leave the value columns; a key that is no column raises.
DataFrame_set_index(frame, keys) ==
    LET keep == KeepNotIn(frame.columns, {keys[k] : k \in DOMAIN keys}, 1)
    IN  [columns |-> [k \in DOMAIN keep |-> frame.columns[keep[k]]],
         data |-> [k \in DOMAIN keep |-> frame.data[keep[k]]],
         index |-> [k \in DOMAIN keys |-> frame.data[ColumnPosition(frame, keys[k])]],
         index_name |-> frame.index_name]

NoFrame == [columns |-> <<>>, data |-> <<>>, index |-> <<>>, index_name |-> ""]

\* The column list Block.compute selects: the whole tree, or the value keys
\* followed by the index columns.
compute_columns_index_first(e, index_columns, hasKeys, value_keys) ==
    IF ~hasKeys THEN e.columns
    ELSE [k \in DOMAIN index_columns |-> get_column(e, index_columns[k])]
         \o [k \in DOMAIN value_keys |-> get_column(e, value_keys[k])]

compute_columns(e, index_columns, hasKeys, value_keys) ==
    IF ~hasKeys THEN e.columns
    ELSE [k \in DOMAIN value_keys |-> get_column(e, value_keys[k])]
         \o [k \in DOMAIN index_columns |-> get_column(e, index_columns[k])]

\* Block.compute(value_keys=None) on a Block blk whose tree is e and whose index
\* object is ix: the outcome, whether a query was executed, the query, the frame.
compute_executes_first(blk, e, ix, hasKeys, value_keys) ==
    LET ic == blk.index_columns
        asked == value_keys \o ic
        missing == hasKeys /\ \E k \in DOMAIN asked : ~HasColumn(e, asked[k])
        tree == BigFramesExpr(e.table, TRUE, compute_columns(e, ic, hasKeys, value_keys))
        q == to_ibis_expr(tree)
        raw == Execute(q)
        labeled == DataFrame_set_index(raw, ic)
    IN  IF SelectOutcome(e) # "ok"
        THEN [out |-> SelectOutcome(e), executed |-> FALSE, query |-> <<>>, df |-> NoFrame]
        ELSE IF missing
        THEN [out |-> "KeyError", executed |-> TRUE, query |-> to_ibis_expr(e).select,
              df |-> NoFrame]
        ELSE IF SelectOutcome(tree) # "ok"
        THEN [out |-> SelectOutcome(tree), executed |-> FALSE, query |-> <<>>,
              df |-> NoFrame]
        ELSE IF Len(ic) = 0
        THEN [out |-> "ok", executed |-> TRUE, query |-> q.select, df |-> raw]
        ELSE IF \E k \in DOMAIN ic : \A j \in DOMAIN raw.columns : raw.columns[j] # ic[k]
        THEN [out |-> "KeyError", executed |-> TRUE, query |-> q.select, df |-> NoFrame]
        ELSE IF ~ix.has_name
        THEN [out |-> "AttributeError", executed |-> TRUE, query |-> q.select, df |-> NoFrame]
        ELSE [out |-> "ok", executed |-> TRUE, query |-> q.select,
              df |-> [labeled EXCEPT !.index_name = ix.name]]

compute(blk, e, ix, hasKeys, value_keys) ==
    LET ic == blk.index_columns
        asked == value_keys \o ic
        missing == hasKeys /\ \E k \in DOMAIN asked : ~HasColumn(e, asked[k])
        tree == BigFramesExpr(e.table, TRUE, compute_columns(e, ic, hasKeys, value_keys))
        q == to_ibis_expr(tree)
        raw == Execute(q)
        labeled == DataFrame_set_index(raw, ic)
    IN  IF missing
        THEN [out |-> "KeyError", executed |-> FALSE, query |-> <<>>, df |-> NoFrame]
        ELSE IF SelectOutcome(tree) # "ok"
        THEN [out |-> SelectOutcome(tree), executed |-> FALSE, query |-> <<>>,
              df |-> NoFrame]
        ELSE IF Len(ic) = 0
        THEN [out |-> "ok", executed |-> TRUE, query |-> q.select, df |-> raw]
        ELSE IF \E k \in DOMAIN ic : \A j \in DOMAIN raw.columns : raw.columns[j] # ic[k]
        THEN [out |-> "KeyError", executed |-> TRUE, query |-> q.select, df |-> NoFrame]
        ELSE IF ~ix.has_name
        THEN [out |-> "AttributeError", executed |-> TRUE, query |-> q.select, df |-> NoFrame]
        ELSE [out |-> "ok", executed |-> TRUE, query |-> q.select,
              df |-> [labeled EXCEPT !.index_name = ix.name]]

\* BigFramesExpr.start_query(): compile the tree and submit the query.
start_query(e) ==
    IF SelectOutcome(e) # "ok"
    THEN [out |-> SelectOutcome(e), executed |-> FALSE, query |-> <<>>]
    ELSE [out |-> "ok", executed |-> TRUE, query |-> to_ibis_expr(e).select]

----------------------------------------------------------------------------
(* Module-level state and threads.                                         *)

\* The number of threads.
NThreads == 2
Threads == 1..NThreads

\* bigframes/core/log_adapter.py: _lock (0: free, else the thread holding it)
\* and cls._api_methods of the logged class.
\* bigframes/pandas/__init__.py: _global_session_lock, _global_session (0:
\* None, else a position in sessions) and every Session created so far, with
\* the number of times it was closed.
\* bigframes/ml/core.py: the dict object that is the default value of the
\* options parameter of create_bqml_model (the set of its keys).
InitGlobals ==
    [lock |-> 0, api_methods |-> <<>>,
     session_lock |-> 0, global_session |-> 0, sessions |-> <<>>,
     session_started |-> FALSE, default_options |-> {}]

\* A thread outside any call: pc is the statement it is at; name, previous
\* and ret are the locals of the function it runs.
IdleThread == [pc |-> "idle", name |-> 0, previous |-> <<>>, ret |-> 0, resets |-> 0]
InitThreads == [t \in Threads |-> IdleThread]

----------------------------------------------------------------------------
(* The state and the calls a client makes.                                 *)

World == [exprs |-> exprs, blocks |-> blocks, idxs |-> idxs, out |-> "ok"]

\* The record of a call: the operation, its outcome ("ok" or the exception
\* raised), the Block or tree it was made on, the object it returned (a heap
\* position), the query it sent to the engine and the frame it returned.
Call(op, out, blk, tree, ret, query, frame) ==
    [op |-> op, out |-> out, blk |-> blk, tree |-> tree, ret |-> ret,
     query |-> query, df |-> frame]

\* The heaps after a Block method: the method's effects, then reclamation.
Commit(w) ==
    LET c == Collect(w)
    IN  /\ exprs' = c.exprs
        /\ blocks' = c.blocks
        /\ idxs' = c.idxs

Init ==
    /\ exprs = <<>>
    /\ blocks = <<>>
    /\ idxs = [s \in IdxSlots |-> FreeSlot]
    /\ nexec = 0
    /\ globals = InitGlobals
    /\ threads = InitThreads
    /\ last = Call("init", "ok", 0, 0, 0, <<>>, NoFrame)

\* BigFramesExpr(session, table) and BigFramesExpr(session, table, columns)
Construct(hasColumns, columns) ==
    /\ Len(exprs) < MaxTrees
    /\ exprs' = Append(exprs, BigFramesExpr("T", hasColumns, columns))
    /\ last' = Call("construct", "ok", 0, 0, Len(exprs'), <<>>, NoFrame)
    /\ UNCHANGED <<globals, threads, blocks, idxs, nexec>>

\* exprs[t].projection(columns)
Projection(t, columns) ==
    /\ Len(exprs) < MaxTrees
    /\ exprs' = projection(exprs, t, columns)
    /\ last' = Call("projection", "ok", 0, t, Len(exprs'), <<>>, NoFrame)
    /\ UNCHANGED <<globals, threads, blocks, idxs, nexec>>

\* exprs[t].get_column(key); the column returned is recorded as a one-column
\* selection.
GetColumn(t, key) ==
    /\ last' = IF HasColumn(exprs[t], key)
               THEN Call("get_column", "ok", 0, t, 0,
                         <<get_column(exprs[t], key)>>, NoFrame)
               ELSE Call("get_column", "KeyError", 0, t, 0, <<>>, NoFrame)
    /\ UNCHANGED <<globals, threads, exprs, blocks, idxs, nexec>>

\* exprs[t].start_query()
StartQuery_latest(t) ==
    /\ nexec < MaxQueries
    /\ LET r == start_query(exprs[Len(exprs)])
       IN  /\ nexec' = IF r.executed THEN nexec + 1 ELSE nexec
           /\ last' = Call("start_query", r.out, 0, t, 0, r.query, NoFrame)
    /\ UNCHANGED <<globals, threads, exprs, blocks, idxs>>

StartQuery(t) ==
    /\ nexec < MaxQueries
    /\ LET r == start_query(exprs[t])
       IN  /\ nexec' = IF r.executed THEN nexec + 1 ELSE nexec
           /\ last' = Call("start_query", r.out, 0, t, 0, r.query, NoFrame)
    /\ UNCHANGED <<globals, threads, exprs, blocks, idxs>>

\* Block(exprs[t], index_columns)
NewBlock(t, index_columns) ==
    /\ Len(blocks) < MaxBlocks
    /\ LET w == Block(World, t, index_columns)
       IN  /\ Commit(w)
           /\ last' = Call("Block", w.out, 0, t,
                           IF w.out = "ok" THEN Len(w.blocks) ELSE 0, <<>>, NoFrame)
    /\ UNCHANGED <<globals, threads, nexec>>

\* blocks[b].index = blocks[c].index
SetIndex(b, c) ==
    /\ LET w == set_index(World, b, blocks[c].index)
       IN  /\ Commit(w)
           /\ last' = Call("set_index", w.out, b, 0, 0, <<>>, NoFrame)
    /\ UNCHANGED <<globals, threads, nexec>>

\* blocks[b].index_columns = value
SetIndexColumns(b, value) ==
    /\ LET w == set_index_columns(World, b, value)
       IN  /\ Commit(w)
           /\ last' = Call("set_index_columns", w.out, b, 0, 0, <<>>, NoFrame)
    /\ UNCHANGED <<globals, threads, nexec>>

\* blocks[b].expr = exprs[t]
SetExpr(b, t) ==
    /\ LET w == set_expr(World, b, t)
       IN  /\ Commit(w)
           /\ last' = Call("set_expr", w.out, b, t, 0, <<>>, NoFrame)
    /\ UNCHANGED <<globals, threads, nexec>>

\* blocks[b].index.name = name
SetIndexName(b, name) ==
    /\ idxs[blocks[b].index].kind = "Index"
    /\ idxs' = [idxs EXCEPT ![blocks[b].index].name = name]
    /\ last' = Call("set_index_name", "ok", b, 0, 0, <<>>, NoFrame)
    /\ UNCHANGED <<globals, threads, exprs, blocks, nexec>>

\* blocks[b].replace_value_columns(value_columns)
ReplaceValueColumns(b, value_columns) ==
    /\ Len(exprs) < MaxExprs
    /\ LET w == replace_value_columns(World, b, value_columns)
       IN  /\ Commit(w)
           /\ last' = Call("replace_value_columns", w.out, b, 0, 0, <<>>, NoFrame)
    /\ UNCHANGED <<globals, threads, nexec>>

\* blocks[b].copy() and blocks[b].copy(value_columns)
Copy(b, hasValueColumns, value_columns) ==
    /\ Len(blocks) < MaxBlocks
    /\ hasValueColumns => Len(exprs) < MaxExprs
    /\ LET w == copy(World, b, hasValueColumns, value_columns)
       IN  /\ Commit(w)
           /\ last' = Call(IF hasValueColumns THEN "copy_with" ELSE "copy", w.out, b, 0,
                           IF w.out = "ok" THEN Len(w.blocks) ELSE 0, <<>>, NoFrame)
    /\ UNCHANGED <<globals, threads, nexec>>

\* blocks[b].compute() and blocks[b].compute(value_keys)
Compute(b, hasKeys, value_keys) ==
    /\ nexec < MaxQueries
    /\ LET r == compute(blocks[b], exprs[blocks[b].expr], idxs[blocks[b].index],
                        hasKeys, value_keys)
       IN  /\ nexec' = IF r.executed THEN nexec + 1 ELSE nexec
           /\ last' = Call(IF hasKeys THEN "compute_keys" ELSE "compute", r.out, b, 0,
                           0, r.query, r.df)
    /\ UNCHANGED <<globals, threads, exprs, blocks, idxs>>

\* The expression-tree layer on its own.
NextExpr ==
    \/ \E columns \in ColumnLists \cup MixedColumnLists : Construct(TRUE, columns)
    \/ Construct(FALSE, <<>>)
    \/ \E t \in DOMAIN exprs, columns \in ColumnLists : Projection(t, columns)
    \/ \E t \in DOMAIN exprs, key \in KeyPool : GetColumn(t, key)
    \/ \E t \in DOMAIN exprs : StartQuery(t)

SpecExpr == Init /\ [][NextExpr]_vars

\* A client that binds the table, builds one Block and works on it.
Next ==
    \/ Len(exprs) < MaxExprs /\ Construct(FALSE, <<>>)
    \/ \E t \in DOMAIN exprs, columns \in ValueColumnLists :
          Len(exprs) < MaxExprs /\ Projection(t, columns)
    \/ \E t \in DOMAIN exprs, key \in KeyPool : GetColumn(t, key)
    \/ \E t \in DOMAIN exprs : StartQuery(t)
    \/ \E t \in DOMAIN exprs, ic \in IndexColumnChoices :
          blocks = <<>> /\ NewBlock(t, ic)
    \/ \E b \in DOMAIN blocks : SetIndex(b, b)
    \/ \E b \in DOMAIN blocks, ic \in IndexColumnChoices : SetIndexColumns(b, ic)
    \/ \E b \in DOMAIN blocks, t \in DOMAIN exprs : SetExpr(b, t)
    \/ \E b \in DOMAIN blocks, name \in DisplayNames : SetIndexName(b, name)
    \/ \E b \in DOMAIN blocks, vs \in ValueColumnLists : ReplaceValueColumns(b, vs)
    \/ \E b \in DOMAIN blocks : Compute(b, FALSE, <<>>)
    \/ \E b \in DOMAIN blocks, ks \in KeyLists : Compute(b, TRUE, ks)

Spec == Init /\ [][Next]_vars

\* A client that builds one Block, copies it and works on both.
NextCopy ==
    \/ Len(exprs) < MaxExprs /\ Construct(FALSE, <<>>)
    \/ \E t \in DOMAIN exprs, ic \in CopyIndexColumnChoices :
          blocks = <<>> /\ NewBlock(t, ic)
    \/ \E b \in DOMAIN blocks : Copy(b, FALSE, <<>>)
    \/ \E b \in DOMAIN blocks, vs \in CopyValueColumnLists : Copy(b, TRUE, vs)
    \/ \E b \in DOMAIN blocks, c \in DOMAIN blocks : SetIndex(b, c)
    \/ \E b \in DOMAIN blocks, ic \in CopyIndexColumnChoices : SetIndexColumns(b, ic)
    \/ \E b \in DOMAIN blocks, t \in DOMAIN exprs : SetExpr(b, t)
    \/ \E b \in DOMAIN blocks, name \in DisplayNames : SetIndexName(b, name)
    \/ \E b \in DOMAIN blocks, vs \in CopyValueColumnLists : ReplaceValueColumns(b, vs)

SpecCopy == Init /\ [][NextCopy]_vars

----------------------------------------------------------------------------
(* bigframes/operations.py: the scalar operations build ibis value          *)
(* expressions; the engine evaluates an expression row by row.              *)

\* The largest absolute value of an operand.
MaxAbs == 7

\* SQL values: an INT64, a BOOL (v is 1 or 0), NULL, or the error that ends
\* the query (division by zero).
IntV(n) == [k |-> "int", v |-> n]
BoolV(b) == [k |-> "bool", v |-> IF b THEN 1 ELSE 0]
NullV == [k |-> "null", v |-> 0]
ErrorV == [k |-> "error", v |-> 0]

\* ibis expression nodes.
Literal(n) == [op |-> "Literal", name |-> "", value |-> n, args |-> <<>>]
BoolLiteral(b) ==
    [op |-> "Literal", name |-> "bool", value |-> IF b THEN 1 ELSE 0, args |-> <<>>]
ColumnRef(name) == [op |-> "Column", name |-> name, value |-> 0, args |-> <<>>]
Node(op, args) == [op |-> op, name |-> "", value |-> 0, args |-> args]

\* ibis.case().when(c1, r1)...else_(d).end(): args are c1, r1, ..., cn, rn, d.
Case(whens, default) == Node("SearchedCase", whens \o <<default>>)

_ZERO == Literal(0)

\* The engine's integer arithmetic: the remainder takes the sign of the
\* dividend (truncated division); floor division rounds toward minus infinity.
Abs(n) == IF n < 0 THEN -n ELSE n
TruncMod(x, y) == IF x < 0 THEN -(Abs(x) % Abs(y)) ELSE Abs(x) % Abs(y)
FloorDiv(x, y) ==
    IF (x < 0) = (y < 0) THEN Abs(x) \div Abs(y)
    ELSE -((Abs(x) + Abs(y) - 1) \div Abs(y))

\* A binary operator on two evaluated operands: an error ends the query, a
\* NULL operand gives NULL.
Binary(op, a, b) ==
    IF a.k = "error" \/ b.k = "error" THEN ErrorV
    ELSE IF op = "And"
    THEN IF (a.k = "bool" /\ a.v = 0) \/ (b.k = "bool" /\ b.v = 0) THEN BoolV(FALSE)
         ELSE IF a.k = "null" \/ b.k = "null" THEN NullV
         ELSE BoolV(TRUE)
    ELSE IF a.k = "null" \/ b.k = "null" THEN NullV
    ELSE IF op = "Multiply" THEN IntV(a.v * b.v)
    ELSE IF op = "Add" THEN IntV(a.v + b.v)
    ELSE IF op = "Equals" THEN BoolV(a.v = b.v)
    ELSE IF op = "NotEquals" THEN BoolV(a.v # b.v)
    ELSE IF op = "Less" THEN BoolV(a.v < b.v)
    ELSE IF op = "Greater" THEN BoolV(a.v > b.v)
    ELSE IF b.v = 0 THEN ErrorV
    ELSE IF op = "Modulus" THEN IntV(TruncMod(a.v, b.v))
    ELSE IntV(FloorDiv(a.v, b.v))

\* The value of an expression on a row (a function from column names to
\* values).  CASE evaluates its conditions in order and only the result of
\* the first condition that is true.
RECURSIVE Eval(_, _)
RECURSIVE EvalCase(_, _, _)
Eval(e, row) ==
    IF e.op = "Literal"
    THEN IF e.name = "bool" THEN BoolV(e.value = 1) ELSE IntV(e.value)
    ELSE IF e.op = "Column" THEN row[e.name]
    ELSE IF e.op = "SearchedCase" THEN EvalCase(e.args, row, 1)
    ELSE Binary(e.op, Eval(e.args[1], row), Eval(e.args[2], row))

EvalCase(args, row, k) ==
    IF k = Len(args) THEN Eval(args[k], row)
    ELSE LET c == Eval(args[k], row)
         IN  IF c.k = "error" THEN ErrorV
             ELSE IF c.k = "bool" /\ c.v = 1 THEN Eval(args[k + 1], row)
             ELSE EvalCase(args, row, k + 2)

\* floordiv_op(x, y)
floordiv_op_unguarded(x, y) == Node("FloorDivide", <<x, y>>)

floordiv_op(x, y) ==
    LET floordiv_expr == Node("FloorDivide", <<x, y>>)
    IN  Case(<<Node("Equals", <<y, _ZERO>>), Node("Multiply", <<_ZERO, x>>)>>,
             floordiv_expr)

\* mod_op(x, y)
mod_op_engine_sign(x, y) ==
    LET bq_mod == Node("Modulus", <<x, y>>)
    IN  IF y.op = "Literal" /\ y.value = 0
        THEN Node("Multiply", <<_ZERO, x>>)
        ELSE Case(<<Node("Equals", <<y, _ZERO>>), Node("Multiply", <<_ZERO, x>>)>>,
                  bq_mod)

mod_op(x, y) ==
    LET bq_mod == Node("Modulus", <<x, y>>)
    IN  IF y.op = "Literal" /\ y.value = 0
        THEN Node("Multiply", <<_ZERO, x>>)
        ELSE Case(<<Node("Equals", <<y, _ZERO>>), Node("Multiply", <<_ZERO, x>>),
                    Node("And", <<Node("Less", <<y, _ZERO>>),
                                  Node("Greater", <<bq_mod, _ZERO>>)>>),
                    Node("Add", <<y, bq_mod>>),
                    Node("And", <<Node("Greater", <<y, _ZERO>>),
                                  Node("Less", <<bq_mod, _ZERO>>)>>),
                    Node("Add", <<y, bq_mod>>)>>,
                  bq_mod)

\* The operands: x is a column of the row; y is a column of the row or a
\* literal of the same value.
Operands == {NullV} \cup {IntV(n) : n \in -MaxAbs..MaxAbs}

\* The record of a scalar operation: the operand values, whether y was a
\* literal, the expression built and its value on the row.
OpCall(op, x, y, literal, expr) ==
    [op |-> op, x |-> x, y |-> y, literal |-> literal, expr |-> expr,
     value |-> Eval(expr, [n \in {"x", "y"} |-> IF n = "x" THEN x ELSE y])]

InitOps ==
    /\ exprs = <<>>
    /\ blocks = <<>>
    /\ idxs = [s \in IdxSlots |-> FreeSlot]
    /\ nexec = 0
    /\ globals = InitGlobals
    /\ threads = InitThreads
    /\ last = OpCall("init", NullV, NullV, FALSE, _ZERO)

\* floordiv_op(x, y) with y a column, and with y a literal
FloordivOp(x, y, literal) ==
    /\ literal => y.k = "int"
    /\ last' = OpCall("floordiv_op", x, y, literal,
                      floordiv_op(ColumnRef("x"),
                                  IF literal THEN Literal(y.v) ELSE ColumnRef("y")))
    /\ UNCHANGED <<globals, threads, exprs, blocks, idxs, nexec>>

\* mod_op(x, y) with y a column, and with y a literal
ModOp(x, y, literal) ==
    /\ literal => y.k = "int"
    /\ last' = OpCall("mod_op", x, y, literal,
                      mod_op(ColumnRef("x"),
                             IF literal THEN Literal(y.v) ELSE ColumnRef("y")))
    /\ UNCHANGED <<globals, threads, exprs, blocks, idxs, nexec>>

NextOps ==
    \/ \E x \in Operands, y \in Operands, literal \in BOOLEAN : FloordivOp(x, y, literal)
    \/ \E x \in Operands, y \in Operands, literal \in BOOLEAN : ModOp(x, y, literal)

SpecOps == InitOps /\ [][NextOps]_vars

----------------------------------------------------------------------------
(* bigframes/aggregations.py: the aggregations build ibis scalar            *)
(* expressions over one column; the engine reduces the column's rows.       *)

\* The largest number of rows of a column.
MaxRows == 3

\* Column types, and ibis' DataType.is_numeric().
ColumnTypes == {"int64", "float64", "string", "boolean"}
is_numeric(type) == type \in {"int64", "float64"}

\* The columns aggregated: INT64 columns of at most MaxRows rows holding 0,
\* non-zero values and NULLs, and an empty column of every type.
RowValues == {NullV, IntV(0), IntV(1), IntV(2)}
AggColumns ==
    {[type |-> "int64", rows |-> r] : r \in SeqsUpTo(RowValues, MaxRows)}
        \cup {[type |-> ty, rows |-> <<>>] : ty \in ColumnTypes}

\* No expression (the call raised before building one).
NoExpr == Node("None", <<>>)

\* The engine's value of an aggregate expression over the rows of column c:
\* LOGICAL_AND / LOGICAL_OR skip NULL inputs and yield NULL when no input is
\* left; fillna replaces a NULL result by the literal.
RECURSIVE AggEval(_, _)
AggEval(e, rows) ==
    IF e.op = "FillNa"
    THEN LET a == AggEval(e.args[1], rows)
         IN  IF a.k = "null" THEN Eval(e.args[2], <<>>) ELSE a
    ELSE LET vals == [k \in DOMAIN rows |->
                         Eval(e.args[1], [n \in {"c"} |-> rows[k]])]
             nonnull == {k \in DOMAIN rows : vals[k].k # "null"}
         IN  IF nonnull = {} THEN NullV
             ELSE IF e.op = "All" THEN BoolV(\A k \in nonnull : vals[k].v = 1)
             ELSE BoolV(\E k \in nonnull : vals[k].v = 1)

\* numeric_op(operation)(column): what the call raises, and what it returns.
numeric_op_unguarded(operation, column) ==
    [out |-> "ok", expr |-> Node(operation, <<ColumnRef("c")>>)]

numeric_op(operation, column) ==
    IF is_numeric(column.type)
    THEN [out |-> "ok", expr |-> Node(operation, <<ColumnRef("c")>>)]
    ELSE [out |-> "ValueError", expr |-> NoExpr]

sum_op(column) == numeric_op("Sum", column)
mean_op(column) == numeric_op("Mean", column)

\* all_op(column) and any_op(column)
all_op_engine_null(column) ==
    Node("All", <<Node("NotEquals", <<ColumnRef("c"), _ZERO>>)>>)

all_op(column) ==
    Node("FillNa", <<Node("All", <<Node("NotEquals", <<ColumnRef("c"), _ZERO>>)>>),
                     BoolLiteral(TRUE)>>)

any_op(column) ==
    Node("FillNa", <<Node("Any", <<Node("NotEquals", <<ColumnRef("c"), _ZERO>>)>>),
                     BoolLiteral(FALSE)>>)

\* The record of an aggregation call: the column, what the call raised, the
\* expression it returned and, for all_op and any_op, its value.
AggCall(op, column, out, expr, value) ==
    [op |-> op, column |-> column, out |-> out, expr |-> expr, value |-> value]

InitAgg ==
    /\ exprs = <<>>
    /\ blocks = <<>>
    /\ idxs = [s \in IdxSlots |-> FreeSlot]
    /\ nexec = 0
    /\ globals = InitGlobals
    /\ threads = InitThreads
    /\ last = AggCall("init", [type |-> "int64", rows |-> <<>>], "ok", NoExpr, NullV)

SumOp(column) ==
    /\ last' = AggCall("sum_op", column, sum_op(column).out, sum_op(column).expr, NullV)
    /\ UNCHANGED <<globals, threads, exprs, blocks, idxs, nexec>>

MeanOp(column) ==
    /\ last' = AggCall("mean_op", column, mean_op(column).out, mean_op(column).expr,
                       NullV)
    /\ UNCHANGED <<globals, threads, exprs, blocks, idxs, nexec>>

AllOp(column) ==
    /\ last' = AggCall("all_op", column, "ok", all_op(column),
                       AggEval(all_op(column), column.rows))
    /\ UNCHANGED <<globals, threads, exprs, blocks, idxs, nexec>>

AnyOp(column) ==
    /\ last' = AggCall("any_op", column, "ok", any_op(column),
                       AggEval(any_op(column), column.rows))
    /\ UNCHANGED <<globals, threads, exprs, blocks, idxs, nexec>>

NextAgg ==
    \/ \E column \in AggColumns : SumOp(column)
    \/ \E column \in AggColumns : MeanOp(column)
    \/ \E column \in AggColumns : AllOp(column)
    \/ \E column \in AggColumns : AnyOp(column)

SpecAgg == InitAgg /\ [][NextAgg]_vars

----------------------------------------------------------------------------
(* bigframes/core/utils.py: get_standardized_ids.  A string is the sequence *)
(* of its characters, so that replacing a space, appending a suffix and     *)
(* comparing two names are what they are on Python strings.                 *)

\* The largest number of column labels, and of index labels, of one call.
MaxLabels == 2

UNNAMED_COLUMN_ID == <<"bigframes_unnamed_column">>
UNNAMED_INDEX_ID == <<"bigframes_unnamed_index">>

\* str(n) for a small positive integer n.
DigitOf(n) == <<"1", "2", "3", "4", "5", "6", "7", "8", "9">>[n]

\* Labels (any hashable): None, a string, or a small positive integer.
NoneLabel == [kind |-> "None", s |-> <<>>, n |-> 0]
StrLabel(s) == [kind |-> "str", s |-> s, n |-> 0]
IntLabel(n) == [kind |-> "int", s |-> <<>>, n |-> n]

\* str(label) of a label that is not None.
str(label) == IF label.kind = "int" THEN <<DigitOf(label.n)>> ELSE label.s

\* The labels a caller passes: None, plain names, a name with a space and the
\* name it becomes, a name that looks like a deduplicated one, the two
\* sentinels themselves, and a number next to the string that spells it.
LabelPool ==
    { NoneLabel,
      StrLabel(<<"a">>),
      StrLabel(<<"a", " ", "b">>),
      StrLabel(<<"a", "_", "b">>),
      StrLabel(<<"a", ".", "1">>),
      StrLabel(UNNAMED_COLUMN_ID),
      StrLabel(UNNAMED_INDEX_ID),
      IntLabel(1),
      StrLabel(<<"1">>) }

LabelLists == SeqsUpTo(LabelPool, MaxLabels)

\* id.replace(" ", "_")
ReplaceSpaces(id) == [k \in DOMAIN id |-> IF id[k] = " " THEN "_" ELSE id[k]]

\* counts[col] of a defaultdict(int) held as a function on the names seen.
CountOf(counts, col) == IF col \in DOMAIN counts THEN counts[col] ELSE 0
SetCount(counts, col, n) ==
    [c \in DOMAIN counts \cup {col} |-> IF c = col THEN n ELSE CountOf(counts, c)]

\* dedup_names(names, is_potential_multiindex=False), the inner loop: while
\* the name has been seen, count the collision and append "." and the count.
RECURSIVE DedupOne(_, _)
DedupOne(col, counts) ==
    LET cur_count == CountOf(counts, col)
    IN  IF cur_count > 0
        THEN DedupOne(col \o <<".", DigitOf(cur_count)>>,
                      SetCount(counts, col, cur_count + 1))
        ELSE [col |-> col, counts |-> SetCount(counts, col, 1)]

\* dedup_names, the outer loop from position i on.
RECURSIVE DedupFrom(_, _, _)
DedupFrom(names, i, counts) ==
    IF i > Len(names) THEN names
    ELSE LET r == DedupOne(names[i], counts)
         IN  DedupFrom([names EXCEPT ![i] = r.col], i + 1, r.counts)

dedup_names(names) == DedupFrom(names, 1, << >>)

\* get_standardized_ids(col_labels, idx_labels): (col_ids, idx_ids)
get_standardized_ids_shared_sentinel(col_labels, idx_labels) ==
    LET col_ids == [k \in DOMAIN col_labels |->
                       IF col_labels[k].kind = "None" THEN UNNAMED_COLUMN_ID
                       ELSE str(col_labels[k])]
        idx_ids == [k \in DOMAIN idx_labels |->
                       IF idx_labels[k].kind = "None" THEN UNNAMED_COLUMN_ID
                       ELSE str(idx_labels[k])]
        ids == dedup_names([k \in 1..(Len(idx_ids) + Len(col_ids)) |->
                               ReplaceSpaces((idx_ids \o col_ids)[k])])
    IN  [col_ids |-> SubSeq(ids, Len(idx_ids) + 1, Len(ids)),
         idx_ids |-> SubSeq(ids, 1, Len(idx_ids))]

get_standardized_ids_no_dedup(col_labels, idx_labels) ==
    LET col_ids == [k \in DOMAIN col_labels |->
                       IF col_labels[k].kind = "None" THEN UNNAMED_COLUMN_ID
                       ELSE str(col_labels[k])]
        idx_ids == [k \in DOMAIN idx_labels |->
                       IF idx_labels[k].kind = "None" THEN UNNAMED_INDEX_ID
                       ELSE str(idx_labels[k])]
        ids == [k \in 1..(Len(idx_ids) + Len(col_ids)) |->
                   ReplaceSpaces((idx_ids \o col_ids)[k])]
    IN  [col_ids |-> SubSeq(ids, Len(idx_ids) + 1, Len(ids)),
         idx_ids |-> SubSeq(ids, 1, Len(idx_ids))]

get_standardized_ids_swapped(col_labels, idx_labels) ==
    LET col_ids == [k \in DOMAIN col_labels |->
                       IF col_labels[k].kind = "None" THEN UNNAMED_COLUMN_ID
                       ELSE str(col_labels[k])]
        idx_ids == [k \in DOMAIN idx_labels |->
                       IF idx_labels[k].kind = "None" THEN UNNAMED_INDEX_ID
                       ELSE str(idx_labels[k])]
        ids == dedup_names([k \in 1..(Len(idx_ids) + Len(col_ids)) |->
                               ReplaceSpaces((idx_ids \o col_ids)[k])])
    IN  [col_ids |-> SubSeq(ids, 1, Len(col_ids)),
         idx_ids |-> SubSeq(ids, Len(col_ids) + 1, Len(ids))]

get_standardized_ids(col_labels, idx_labels) ==
    LET col_ids == [k \in DOMAIN col_labels |->
                       IF col_labels[k].kind = "None" THEN UNNAMED_COLUMN_ID
                       ELSE str(col_labels[k])]
        idx_ids == [k \in DOMAIN idx_labels |->
                       IF idx_labels[k].kind = "None" THEN UNNAMED_INDEX_ID
                       ELSE str(idx_labels[k])]
        ids == dedup_names([k \in 1..(Len(idx_ids) + Len(col_ids)) |->
                               ReplaceSpaces((idx_ids \o col_ids)[k])])
    IN  [col_ids |-> SubSeq(ids, Len(idx_ids) + 1, Len(ids)),
         idx_ids |-> SubSeq(ids, 1, Len(idx_ids))]

\* The record of a call: the labels passed and the ids returned; again is
\* TRUE when the labels were the ids an earlier call returned.
IdsCall(op, col_labels, idx_labels, again) ==
    [op |-> op, col_labels |-> col_labels, idx_labels |-> idx_labels,
     again |-> again,
     col_ids |-> get_standardized_ids(col_labels, idx_labels).col_ids,
     idx_ids |-> get_standardized_ids(col_labels, idx_labels).idx_ids]

\* The caller holds the labels of the next call.
InitIds ==
    /\ exprs = <<>>
    /\ blocks = <<>>
    /\ idxs = [s \in IdxSlots |-> FreeSlot]
    /\ nexec = 0
    /\ globals = InitGlobals
    /\ threads = InitThreads
    /\ \E cs \in LabelLists, is \in LabelLists :
          last = [op |-> "labels", col_labels |-> cs, idx_labels |-> is,
                  again |-> FALSE, col_ids |-> <<>>, idx_ids |-> <<>>]

\* get_standardized_ids(col_labels, idx_labels) on the labels held
GetStandardizedIds ==
    /\ last' = IdsCall("get_standardized_ids", last.col_labels, last.idx_labels,
                       last.again)
    /\ UNCHANGED <<globals, threads, exprs, blocks, idxs, nexec>>

\* get_standardized_ids(*previous result): the ids of the last call as labels
StandardizeAgain ==
    /\ last.op = "get_standardized_ids"
    /\ last' = IdsCall("get_standardized_ids",
                       [k \in DOMAIN last.col_ids |-> StrLabel(last.col_ids[k])],
                       [k \in DOMAIN last.idx_ids |-> StrLabel(last.idx_ids[k])],
                       TRUE)
    /\ UNCHANGED <<globals, threads, exprs, blocks, idxs, nexec>>

NextIds ==
    \/ GetStandardizedIds
    \/ StandardizeAgain

SpecIds == InitIds /\ [][NextIds]_vars

----------------------------------------------------------------------------
(* bigframes/session.py: Session.read_gbq.  A table identifier is the       *)
(* sequence of its characters.                                              *)

\* The largest length of a table identifier.
MaxIdLen == 5

TableIds == UNION {[1..n -> {"a", ".", ":"}] : n \in 0..MaxIdLen}

\* table.replace(":", ".")
ReplaceColons(table) ==
    [k \in DOMAIN table |-> IF table[k] = ":" THEN "." ELSE table[k]]

\* s.split("."): the parts between the dots, empty parts included; cur is the
\* part being read from position k on.
RECURSIVE SplitFrom(_, _, _)
SplitFrom(s, k, cur) ==
    IF k > Len(s) THEN <<cur>>
    ELSE IF s[k] = "." THEN <<cur>> \o SplitFrom(s, k + 1, <<>>)
    ELSE SplitFrom(s, k + 1, Append(cur, s[k]))

split(s) == SplitFrom(s, 1, <<>>)

\* ibis_client.table(name, database=...): the handle of a table of the
\* catalog; the catalog holds the tables whose project, dataset and name are
\* not empty.
TableHandle(parts) == [database |-> <<parts[1], parts[2]>>, name |-> parts[3]]
InCatalog(parts) == \A k \in 1..3 : parts[k] # <<>>

\* Session.read_gbq(table): what the call raises, whether it asked the client
\* for a table handle, and the handle the tree is built on.
read_gbq_resolves_first(table) ==
    LET parts == split(ReplaceColons(table))
    IN  IF Len(parts) < 3
        THEN [out |-> "ValueError", resolved |-> FALSE, handle |-> TableHandle(<< <<>>, <<>>, <<>> >>)]
        ELSE IF ~InCatalog(parts)
        THEN [out |-> "NotFound", resolved |-> TRUE, handle |-> TableHandle(parts)]
        ELSE IF Len(parts) # 3
        THEN [out |-> "ValueError", resolved |-> TRUE, handle |-> TableHandle(parts)]
        ELSE [out |-> "ok", resolved |-> TRUE, handle |-> TableHandle(parts)]

read_gbq(table) ==
    LET parts == split(ReplaceColons(table))
    IN  IF Len(parts) # 3
        THEN [out |-> "ValueError", resolved |-> FALSE, handle |-> TableHandle(<< <<>>, <<>>, <<>> >>)]
        ELSE IF ~InCatalog(parts)
        THEN [out |-> "NotFound", resolved |-> TRUE, handle |-> TableHandle(parts)]
        ELSE [out |-> "ok", resolved |-> TRUE, handle |-> TableHandle(parts)]

InitSession ==
    /\ exprs = <<>>
    /\ blocks = <<>>
    /\ idxs = [s \in IdxSlots |-> FreeSlot]
    /\ nexec = 0
    /\ globals = InitGlobals
    /\ threads = InitThreads
    /\ last = [op |-> "init", table |-> <<>>, out |-> "ok", resolved |-> FALSE,
               handle |-> TableHandle(<< <<>>, <<>>, <<>> >>), ret |-> 0]

\* session.read_gbq(table); ret is the tree of the DataFrame returned.
ReadGbq(table) ==
    /\ Len(exprs) < MaxTrees
    /\ LET r == read_gbq(table)
       IN  /\ exprs' = IF r.out = "ok"
                       THEN Append(exprs, BigFramesExpr(r.handle, FALSE, <<>>))
                       ELSE exprs
           /\ last' = [op |-> "read_gbq", table |-> table, out |-> r.out,
                       resolved |-> r.resolved, handle |-> r.handle,
                       ret |-> IF r.out = "ok" THEN Len(exprs) + 1 ELSE 0]
    /\ UNCHANGED <<globals, threads, blocks, idxs, nexec>>

NextSession == \E table \in TableIds : ReadGbq(table)

SpecSession == InitSession /\ [][NextSession]_vars

----------------------------------------------------------------------------
(* bigframes/core/log_adapter.py: add_api_method and                        *)
(* get_and_reset_api_methods on one logged class, called from several       *)
(* threads.  A thread moves one statement at a time.                        *)

\* The largest number of method calls logged.
MaxAdds == 3

\* The largest number of get_and_reset_api_methods calls.
MaxGets == 3

MAX_LABELS_COUNT == 64

\* The get_and_reset_api_methods calls started so far.
GetsStarted ==
    Len(last.returned)
      + Cardinality({u \in Threads :
                       threads[u].pc \in {"get_copy", "get_clear", "get_return"}})

\* The first n elements of a list: seq[:n].
Take(seq, n) == SubSeq(seq, 1, IF Len(seq) < n THEN Len(seq) ELSE n)

\* What has been observed so far: the names in the order in which they were
\* inserted, and the lists get_and_reset_api_methods returned, in order.
LogCall(op, thread, recorded, returned) ==
    [op |-> op, thread |-> thread, recorded |-> recorded, returned |-> returned]

InitLog ==
    /\ exprs = <<>>
    /\ blocks = <<>>
    /\ idxs = [s \in IdxSlots |-> FreeSlot]
    /\ nexec = 0
    /\ globals = InitGlobals
    /\ threads = InitThreads
    /\ last = LogCall("init", 0, <<>>, <<>>)

\* add_api_method(api_method_name, cls), "with _lock:": the thread waits until
\* the lock is free and takes it.  The name logged is a new one.
AddAcquire(t) ==
    /\ threads[t].pc = "idle"
    /\ Len(last.recorded) < MaxAdds
    /\ globals.lock = 0
    /\ globals' = [globals EXCEPT !.lock = t]
    /\ threads' = [threads EXCEPT ![t].pc = "add_insert",
                                  ![t].name = 1 + Len(last.recorded)]
    /\ UNCHANGED <<exprs, blocks, idxs, nexec, last>>

\* cls._api_methods.insert(0, api_method_name)
AddInsert(t) ==
    /\ threads[t].pc = "add_insert"
    /\ globals' = [globals EXCEPT !.api_methods = <<threads[t].name>> \o @]
    /\ threads' = [threads EXCEPT ![t].pc = "add_truncate"]
    /\ last' = LogCall("add_api_method", t, Append(last.recorded, threads[t].name),
                       last.returned)
    /\ UNCHANGED <<exprs, blocks, idxs, nexec>>

\* cls._api_methods = cls._api_methods[:MAX_LABELS_COUNT], and the lock is
\* released on leaving the with block.
AddTruncate(t) ==
    /\ threads[t].pc = "add_truncate"
    /\ globals' = [globals EXCEPT
                     !.api_methods = Take(@, MAX_LABELS_COUNT),
                     !.lock = IF @ = t THEN 0 ELSE @]
    /\ threads' = [threads EXCEPT ![t] = IdleThread]
    /\ UNCHANGED <<exprs, blocks, idxs, nexec, last>>

\* get_and_reset_api_methods(cls), "with _lock:"
GetAcquire_unlocked(t) ==
    /\ threads[t].pc = "idle"
    /\ GetsStarted < MaxGets
    /\ threads' = [threads EXCEPT ![t].pc = "get_copy"]
    /\ UNCHANGED <<exprs, blocks, idxs, nexec, globals, last>>

GetAcquire(t) ==
    /\ threads[t].pc = "idle"
    /\ GetsStarted < MaxGets
    /\ globals.lock = 0
    /\ globals' = [globals EXCEPT !.lock = t]
    /\ threads' = [threads EXCEPT ![t].pc = "get_copy"]
    /\ UNCHANGED <<exprs, blocks, idxs, nexec, last>>

\* previous_api_methods = list(cls._api_methods)
GetCopy(t) ==
    /\ threads[t].pc = "get_copy"
    /\ threads' = [threads EXCEPT ![t].pc = "get_clear",
                                  ![t].previous = globals.api_methods]
    /\ UNCHANGED <<exprs, blocks, idxs, nexec, globals, last>>

\* cls._api_methods.clear(), and the lock is released on leaving the block.
GetClear(t) ==
    /\ threads[t].pc = "get_clear"
    /\ globals' = [globals EXCEPT !.api_methods = <<>>,
                                  !.lock = IF @ = t THEN 0 ELSE @]
    /\ threads' = [threads EXCEPT ![t].pc = "get_return"]
    /\ UNCHANGED <<exprs, blocks, idxs, nexec, last>>

\* return previous_api_methods
GetReturn(t) ==
    /\ threads[t].pc = "get_return"
    /\ threads' = [threads EXCEPT ![t] = IdleThread]
    /\ last' = LogCall("get_and_reset_api_methods", t, last.recorded,
                       Append(last.returned, threads[t].previous))
    /\ UNCHANGED <<exprs, blocks, idxs, nexec, globals>>

NextLog ==
    \/ \E t \in Threads : AddAcquire(t)
    \/ \E t \in Threads : AddInsert(t)
    \/ \E t \in Threads : AddTruncate(t)
    \/ \E t \in Threads : GetAcquire(t)
    \/ \E t \in Threads : GetCopy(t)
    \/ \E t \in Threads : GetClear(t)
    \/ \E t \in Threads : GetReturn(t)

SpecLog == InitLog /\ [][NextLog]_vars

----------------------------------------------------------------------------
(* bigframes/pandas/__init__.py: the global session, get_global_session and *)
(* reset_session called from several threads, one statement at a time.      *)
(* A session is its position in globals.sessions, with the number of times  *)
(* close() was called on it; 0 stands for None.                             *)

\* The largest number of sessions connected and of reset_session calls.
MaxSessions == 3
MaxResets == 2

\* bigframes.session.connect: a new Session object.
connect(sessions) == Append(sessions, [closed |-> 0])

\* Session.close(), not part of session.py here: the session is closed.
close(sessions, s) == [sessions EXCEPT ![s].closed = @ + 1]

\* The last call that returned: its result, the number of reset_session
\* bodies that have run, and the number that had run when the call began.
SessionCall(op, thread, ret, resets) ==
    [op |-> op, thread |-> thread, ret |-> ret, resets |-> resets, began |-> 0]

InitGlobalSession ==
    /\ exprs = <<>>
    /\ blocks = <<>>
    /\ idxs = [s \in IdxSlots |-> FreeSlot]
    /\ nexec = 0
    /\ globals = InitGlobals
    /\ threads = InitThreads
    /\ last = SessionCall("init", 0, 0, 0)

\* get_global_session(), "with _global_session_lock:".  The thread notes how
\* many resets have run when its call begins.
GsAcquire(t) ==
    /\ threads[t].pc = "idle"
    /\ globals.global_session # 0 \/ Len(globals.sessions) < MaxSessions
    /\ globals.session_lock = 0
    /\ globals' = [globals EXCEPT !.session_lock = t]
    /\ threads' = [threads EXCEPT ![t].pc = "gs_check", ![t].resets = last.resets]
    /\ UNCHANGED <<exprs, blocks, idxs, nexec, last>>

\* if _global_session is None: _global_session = connect(options.bigquery);
\* the lock is released on leaving the with block.
GsCheck_always_connects(t) ==
    /\ threads[t].pc = "gs_check"
    /\ globals' = [globals EXCEPT
                     !.sessions = connect(@),
                     !.global_session = Len(globals.sessions) + 1,
                     !.session_lock = 0]
    /\ threads' = [threads EXCEPT ![t].pc = "gs_return"]
    /\ UNCHANGED <<exprs, blocks, idxs, nexec, last>>

GsCheck(t) ==
    /\ threads[t].pc = "gs_check"
    /\ globals' = IF globals.global_session = 0
                  THEN [globals EXCEPT
                          !.sessions = connect(@),
                          !.global_session = Len(globals.sessions) + 1,
                          !.session_lock = 0]
                  ELSE [globals EXCEPT !.session_lock = 0]
    /\ threads' = [threads EXCEPT ![t].pc = "gs_return"]
    /\ UNCHANGED <<exprs, blocks, idxs, nexec, last>>

\* return _global_session: the global is read after the lock is released.
GsReturn(t) ==
    /\ threads[t].pc = "gs_return"
    /\ threads' = [threads EXCEPT ![t] = IdleThread]
    /\ last' = [SessionCall("get_global_session", t, globals.global_session,
                            last.resets)
                  EXCEPT !.began = threads[t].resets]
    /\ UNCHANGED <<exprs, blocks, idxs, nexec, globals>>

\* reset_session(), "with _global_session_lock:"
RsAcquire(t) ==
    /\ threads[t].pc = "idle"
    /\ last.resets < MaxResets
    /\ globals.session_lock = 0
    /\ globals' = [globals EXCEPT !.session_lock = t]
    /\ threads' = [threads EXCEPT ![t].pc = "rs_body"]
    /\ UNCHANGED <<exprs, blocks, idxs, nexec, last>>

\* if _global_session is not None: _global_session.close();
\* _global_session = None.  Then options.bigquery._session_started = False,
\* the lock is released and the call returns.
RsBody(t) ==
    /\ threads[t].pc = "rs_body"
    /\ globals' = IF globals.global_session # 0
                  THEN [globals EXCEPT
                          !.sessions = close(@, globals.global_session),
                          !.global_session = 0,
                          !.session_started = FALSE,
                          !.session_lock = 0]
                  ELSE [globals EXCEPT !.session_started = FALSE,
                                       !.session_lock = 0]
    /\ threads' = [threads EXCEPT ![t] = IdleThread]
    /\ last' = [SessionCall("reset_session", t, 0, last.resets + 1)
                  EXCEPT !.began = last.resets]
    /\ UNCHANGED <<exprs, blocks, idxs, nexec>>

NextGlobalSession ==
    \/ \E t \in Threads : GsAcquire(t)
    \/ \E t \in Threads : GsCheck(t)
    \/ \E t \in Threads : GsReturn(t)
    \/ \E t \in Threads : RsAcquire(t)
    \/ \E t \in Threads : RsBody(t)

SpecGlobalSession == InitGlobalSession /\ [][NextGlobalSession]_vars

----------------------------------------------------------------------------
(* bigframes/ml/core.py: create_bqml_model.  A dict is the set of its       *)
(* <<key, value>> items.  The default of the options parameter is one dict  *)
(* object made when the function is defined, globals.default_options.       *)

\* The largest number of CREATE MODEL statements issued.
MaxModels == 4

\* dict.update in place: the items of other replace those with the same key.
update(dict, other) ==
    {item \in dict : \A o \in other : o[1] # item[1]} \cup other

Keys(dict) == {item[1] : item \in dict}

\* train_y: None, or a frame with label columns.
TrainYs ==
    {[none |-> TRUE, columns |-> <<>>],
     [none |-> FALSE, columns |-> <<"y">>],
     [none |-> FALSE, columns |-> <<"y", "z">>]}

\* The options argument: omitted, or a dict of the caller.
OptionArgs ==
    {[given |-> FALSE, dict |-> {}]}
      \cup {[given |-> TRUE, dict |-> d] :
              d \in {{}, {<<"model_type", "linear_reg">>},
                     {<<"input_label_cols", <<"w">>>>},
                     {<<"model_type", "linear_reg">>, <<"input_label_cols", <<"w">>>>}}}

\* A call: its arguments, whether train_X was joined with train_y, the
\* options handed to bigframes.ml.sql.create_model, and the caller's dict
\* when the call has returned.
MlCall(op, train_y, options, joined, used, caller_dict) ==
    [op |-> op, train_y |-> train_y, options |-> options, joined |-> joined,
     used |-> used, caller_dict |-> caller_dict]

InitMl ==
    /\ exprs = <<>>
    /\ blocks = <<>>
    /\ idxs = [s \in IdxSlots |-> FreeSlot]
    /\ nexec = 0
    /\ globals = InitGlobals
    /\ threads = InitThreads
    /\ last = MlCall("init", [none |-> TRUE, columns |-> <<>>],
                     [given |-> FALSE, dict |-> {}], FALSE, {}, {})

\* create_bqml_model(train_X, train_y, options): options names the caller's
\* dict, or the default dict when the argument is omitted; with a train_y it
\* is updated in place; it is handed to create_model and the statement is run.
CreateBqmlModel(train_y, options) ==
    /\ nexec < MaxModels
    /\ LET dict == IF options.given THEN options.dict ELSE globals.default_options
           updated == IF train_y.none
                      THEN dict
                      ELSE update(dict, {<<"input_label_cols", train_y.columns>>})
       IN  /\ globals' = IF options.given
                         THEN globals
                         ELSE [globals EXCEPT !.default_options = updated]
           /\ last' = MlCall("create_bqml_model", train_y, options,
                             ~train_y.none, updated,
                             IF options.given THEN updated ELSE {})
    /\ nexec' = nexec + 1
    /\ UNCHANGED <<exprs, blocks, idxs, threads>>

NextMl == \E train_y \in TrainYs, options \in OptionArgs :
             CreateBqmlModel(train_y, options)

SpecMl == InitMl /\ [][NextMl]_vars

----------------------------------------------------------------------------
(* What a caller sees of a Block: its tree, its index-column tuple and the  *)
(* index object it holds.                                                   *)

BlockView(bs, ix, b) ==
    [expr |-> bs[b].expr,
     index_columns |-> bs[b].index_columns,
     index |-> ix[bs[b].index]]

\* The index-column tuple an index object designates.
IndexColumnsOf(ix) == IF ix.kind = "Index" THEN <<ix.index_column>> ELSE <<>>

----------------------------------------------------------------------------
(* C1: assigning two or more names to Block.index_columns raises            *)
(* NotImplementedError and leaves the Block's expr, index_columns and index *)
(* exactly as they were before the assignment.                              *)
C1_MultiIndexAssignKeepsState ==
    [][\A b \in DOMAIN blocks, ic \in IndexColumnChoices :
          (Len(ic) >= 2 /\ SetIndexColumns(b, ic))
          => /\ last'.out = "NotImplementedError"
             /\ BlockView(blocks', idxs', b) = BlockView(blocks, idxs, b)]_vars

(* C2: in every reachable state the index of every Block is the one derived *)
(* from the Block's current (expr, index_columns) pair: bound to the        *)
(* current expr, implicit for the empty tuple, labeled on the one name      *)
(* otherwise.                                                               *)
C2_IndexConsistent ==
    \A b \in DOMAIN blocks :
        /\ idxs[blocks[b].index].expr = blocks[b].expr
        /\ IndexColumnsOf(idxs[blocks[b].index]) = blocks[b].index_columns

(* C3: a tree, once built, keeps its base table and its column list: no     *)
(* projection from it, and no later call on the projected tree or on a      *)
(* Block holding it, changes it.                                            *)
C3_TreesNeverChange ==
    [][\A t \in DOMAIN exprs :
          t \in DOMAIN exprs' /\ exprs'[t] = exprs[t]]_vars

\* A projection was just taken from a tree that a Block holds, with a column
\* list other than the tree's own.
C3_Witness ==
    /\ last.op = "projection"
    /\ exprs[last.ret].columns # exprs[last.tree].columns
    /\ \E b \in DOMAIN blocks : blocks[b].expr = last.tree

(* C4: for every column expression c of the list C given to projection,     *)
(* get_column(name of c) on the projected tree returns exactly c.           *)
C4_GetColumnReturnsSupplied ==
    [][\A t \in DOMAIN exprs, C \in ColumnLists :
          Projection(t, C)
          => \A k \in DOMAIN C :
                /\ HasColumn(exprs'[last'.ret], C[k].name)
                /\ get_column(exprs'[last'.ret], C[k].name) = C[k]]_vars

(* C5: copy() returns a new Block with the original's tree and an equal     *)
(* index-column tuple; copy, with or without replacement columns, changes   *)
(* no existing Block; and a replace_value_columns call or an expr, index or *)
(* index_columns assignment on one Block changes no other Block.            *)
C5_CopyLeavesOriginal ==
    [][/\ \A b \in DOMAIN blocks :
            (Copy(b, FALSE, <<>>) /\ last'.out = "ok")
            => /\ last'.ret \notin DOMAIN blocks
               /\ last'.ret \in DOMAIN blocks'
               /\ blocks'[last'.ret].expr = blocks[b].expr
               /\ blocks'[last'.ret].index_columns = blocks[b].index_columns
       /\ \A b \in DOMAIN blocks :
            last'.op \in {"copy", "copy_with"}
            => /\ b \in DOMAIN blocks'
               /\ BlockView(blocks', idxs', b) = BlockView(blocks, idxs, b)
       /\ \A b \in DOMAIN blocks :
            (/\ last'.op \in {"replace_value_columns", "set_expr",
                              "set_index", "set_index_columns"}
             /\ last'.blk # b)
            => BlockView(blocks', idxs', b) = BlockView(blocks, idxs, b)]_vars

\* A call on a copy has just given the copy a tree other than its original's.
C5_Witness ==
    /\ last.op \in {"replace_value_columns", "set_expr", "set_index", "set_index_columns"}
    /\ last.out = "ok"
    /\ blocks[last.blk].copy_of # 0
    /\ blocks[last.blk].expr # blocks[blocks[last.blk].copy_of].expr

(* C6: an assignment of at most one name to index_columns succeeds from    *)
(* any state of the Block and leaves an index that designates exactly the   *)
(* assigned columns (the implicit index for none) over the Block's tree; a  *)
(* later assignment to expr keeps the index-column tuple and leaves the     *)
(* index re-derived for the same tuple over the new tree.                   *)
C6_IndexFollowsAssignment ==
    [][/\ \A b \in DOMAIN blocks, ic \in IndexColumnChoices :
            (Len(ic) <= 1 /\ SetIndexColumns(b, ic))
            => /\ last'.out = "ok"
               /\ blocks'[b].index_columns = ic
               /\ blocks'[b].expr = blocks[b].expr
               /\ IndexColumnsOf(idxs'[blocks'[b].index]) = ic
               /\ idxs'[blocks'[b].index].expr = blocks[b].expr
       /\ \A b \in DOMAIN blocks, t \in DOMAIN exprs :
            (Len(blocks[b].index_columns) <= 1 /\ SetExpr(b, t))
            => /\ last'.out = "ok"
               /\ blocks'[b].expr = t
               /\ blocks'[b].index_columns = blocks[b].index_columns
               /\ IndexColumnsOf(idxs'[blocks'[b].index]) = blocks[b].index_columns
               /\ idxs'[blocks'[b].index].expr = t]_vars

\* expr has just been reassigned on a Block whose labeled index had been given
\* a display name of its own.
C6_Witness ==
    /\ last.op = "set_expr"
    /\ last.out = "ok"
    /\ idxs[blocks[last.blk].index].kind = "Index"
    /\ idxs[blocks[last.blk].index].name = "label"
    /\ idxs[blocks[last.blk].index].expr = last.tree

C8_OneExecutionPerCompletedCall ==
    [][nexec' = nexec +
          (IF /\ last'.op \in {"compute", "compute_keys", "start_query"}
              /\ last'.out = "ok"
           THEN 1 ELSE 0)]_vars

(* C9: compute with a value key that is no column name of the Block's tree  *)
(* raises KeyError, sends no query to the engine and leaves the Block, its  *)
(* index and every tree as they were.                                       *)
C9_UnknownKeyFailsLocally ==
    [][\A b \in DOMAIN blocks, ks \in KeyLists :
          (/\ \E k \in DOMAIN ks :
                 ks[k] \notin Names(exprs[blocks[b].expr].columns)
           /\ Compute(b, TRUE, ks))
          => /\ last'.out = "KeyError"
             /\ last'.query = <<>>
             /\ nexec' = nexec
             /\ exprs' = exprs
             /\ BlockView(blocks', idxs', b) = BlockView(blocks, idxs, b)]_vars

\* compute(value_keys) has just raised KeyError on a Block without index
\* columns: one of the value keys was unknown.
C9_Witness ==
    /\ last.op = "compute_keys"
    /\ last.out = "KeyError"
    /\ blocks[last.blk].index_columns = <<>>

\* The case of C10: one index column, which the tree has, and value keys that
\* are columns of the tree and differ from the index column.
C10_Case(b, ks) ==
    LET e == exprs[blocks[b].expr]
        ic == blocks[b].index_columns
    IN  /\ Len(ic) = 1
        /\ HasColumn(e, ic[1])
        /\ \A k \in DOMAIN ks : HasColumn(e, ks[k]) /\ ks[k] # ic[1]

\* What C10 says compute(ks) does: the query, and the frame returned.
C10_Result(b, ks) ==
    LET e == exprs[blocks[b].expr]
        i == blocks[b].index_columns[1]
    IN  /\ last'.out = "ok"
        /\ nexec' = nexec + 1
        /\ last'.query = [k \in DOMAIN ks |-> get_column(e, ks[k])]
                             \o <<get_column(e, i)>>
        /\ last'.df.columns = ks
        /\ last'.df.data = [k \in DOMAIN ks |-> EngineEval(get_column(e, ks[k]))]
        /\ last'.df.index = <<EngineEval(get_column(e, i))>>
        /\ last'.df.index_name = idxs[blocks[b].index].name
        /\ (/\ e = BigFramesExpr("T", FALSE, <<>>)
            /\ i = "id"
            /\ ks = <<"val">>)
           => /\ last'.df.columns = <<"val">>
              /\ last'.df.data = << <<10, 20, 30>> >>
              /\ last'.df.index = << <<1, 2, 3>> >>

(* C10 as claimed: for a Block with one index column i and any list K of    *)
(* value keys that are columns of its tree, none equal to i, compute(K)     *)
(* selects K followed by i and returns a frame whose columns are K in       *)
(* order, labeled by the engine's values of i and named by the index's      *)
(* display name.                                                            *)
C10_ComputeAnyKeys ==
    [][\A b \in DOMAIN blocks, ks \in KeyLists :
          (C10_Case(b, ks) /\ Compute(b, TRUE, ks)) => C10_Result(b, ks)]_vars

(* C10 as amended: the same for a list K of pairwise distinct value keys.   *)
C10_ComputeDistinctKeys ==
    [][\A b \in DOMAIN blocks, ks \in KeyLists :
          (/\ C10_Case(b, ks)
           /\ \A j, k \in DOMAIN ks : j # k => ks[j] # ks[k]
           /\ Compute(b, TRUE, ks))
          => C10_Result(b, ks)]_vars

\* compute(value_keys) has just returned two value columns labeled by an index
\* whose display name is not its column name.
C10_Witness ==
    /\ last.op = "compute_keys"
    /\ last.out = "ok"
    /\ Len(last.df.columns) = 2
    /\ Len(last.df.index) = 1
    /\ last.df.index_name = "label"

----------------------------------------------------------------------------
(* C11: in every tree built by construction or projection (and so in every  *)
(* tree replace_value_columns and compute build through projection), no two *)
(* entries of the column list carry the same name.                          *)
C11_NamesUnique ==
    \A t \in DOMAIN exprs :
        \A j, k \in DOMAIN exprs[t].columns :
            j # k => exprs[t].columns[j].name # exprs[t].columns[k].name

(* C12: a Block with a labeled index has the index column among the column  *)
(* names of its current tree, and an assignment to expr or index_columns    *)
(* that leaves a tuple the tree does not resolve raises an error.           *)
C12_IndexColumnResolves ==
    /\ \A b \in DOMAIN blocks :
          idxs[blocks[b].index].kind = "Index"
          => HasColumn(exprs[blocks[b].expr], idxs[blocks[b].index].index_column)
    /\ (/\ last.op \in {"set_expr", "set_index_columns"}
        /\ \E k \in DOMAIN blocks[last.blk].index_columns :
              ~HasColumn(exprs[blocks[last.blk].expr],
                         blocks[last.blk].index_columns[k]))
       => last.out # "ok"

(* C13: no tree holds a column expression rooted at a table other than its  *)
(* own base table: constructing a tree with an explicit column list that    *)
(* contains one fails.                                                      *)
C13_SingleTable ==
    \A t \in DOMAIN exprs :
        \A k \in DOMAIN exprs[t].columns :
            exprs[t].columns[k].tbl = exprs[t].table

(* C14: a projection with list C2 taken from a tree that is itself the      *)
(* projection of a tree T is a tree over the base table of T whose column   *)
(* list is exactly C2, in order: the same tree, compiling to the same       *)
(* selection, as the projection of T with C2; the trees before it are kept. *)
C14_ChainedProjectionFlat ==
    [][\A C2 \in ColumnLists :
          (last.op = "projection" /\ Projection(last.ret, C2))
          => LET T == exprs[last.tree]
                 P2 == exprs'[last'.ret]
                 direct == projection(exprs, last.tree, C2)
             IN  /\ last'.ret = Len(exprs) + 1
                 /\ P2.table = T.table
                 /\ P2.columns = C2
                 /\ P2 = direct[Len(direct)]
                 /\ to_ibis_expr(P2) = to_ibis_expr(direct[Len(direct)])
                 /\ SubSeq(exprs', 1, Len(exprs)) = exprs]_vars

\* A second projection has just been taken from a projected tree, with a list
\* that differs from the list of the tree it was taken from and is shorter.
C14_Witness ==
    /\ Len(exprs) = 3
    /\ last.op = "projection"
    /\ last.tree = 2
    /\ last.ret = 3
    /\ exprs[1] = BigFramesExpr("T", FALSE, <<>>)
    /\ Len(exprs[2].columns) = 2
    /\ Len(exprs[3].columns) = 1
    /\ exprs[3].columns[1] # exprs[2].columns[1]

(* C15: a tree constructed from a table with the column list omitted holds  *)
(* that table and exactly one column per column of the table, table[key]    *)
(* for each key in the table's own column order; each is found by its name. *)
C15_ConstructBindsAllColumns ==
    [][Construct(FALSE, <<>>)
       => LET e == exprs'[last'.ret]
          IN  /\ last'.ret = Len(exprs) + 1
              /\ e.table = "T"
              /\ Len(e.columns) = Len(TableColumns)
              /\ \A k \in DOMAIN TableColumns :
                    /\ e.columns[k].name = TableColumns[k]
                    /\ e.columns[k].tbl = e.table
                    /\ e.columns[k].base = TableColumns[k]
                    /\ HasColumn(e, TableColumns[k])
                    /\ get_column(e, TableColumns[k]) = e.columns[k]]_vars

\* A tree has just been constructed from the table alone, next to a tree that
\* was given an explicit list.
C15_Witness ==
    /\ last.op = "construct"
    /\ last.ret = 2
    /\ Len(exprs[1].columns) < Len(TableColumns)
    /\ [k \in DOMAIN exprs[2].columns |-> exprs[2].columns[k].name] = TableColumns

\* Everything a compilation can yield: a selection any tree can hold, or
\* nothing when the selection is refused.
CompiledOutputs ==
    ColumnLists \cup MixedColumnLists
        \cup {BigFramesExpr("T", FALSE, <<>>).columns}

----------------------------------------------------------------------------
(* C17: for integers x and y, y not 0, the value of mod_op(x, y) is the     *)
(* floored remainder r = x - y * floor(x / y): r is 0 or has the sign of y, *)
(* |r| < |y|, and r is the engine's remainder plus y exactly when y and the *)
(* engine's remainder have opposite signs; mod(7, -2) = -1.                 *)
C17_ModFloored ==
    (last.op = "mod_op" /\ last.x.k = "int" /\ last.y.k = "int" /\ last.y.v # 0)
    => LET x == last.x.v
           y == last.y.v
           r == last.value.v
           native == TruncMod(x, y)
           opposite == (y < 0 /\ native > 0) \/ (y > 0 /\ native < 0)
       IN  /\ last.value.k = "int"
           /\ r = x - y * FloorDiv(x, y)
           /\ r = 0 \/ (r < 0) = (y < 0)
           /\ Abs(r) < Abs(y)
           /\ r = IF opposite THEN native + y ELSE native
           /\ (x = 7 /\ y = -2) => r = -1

\* mod_op has just been evaluated on 7 and -2, the divisor being a column.
C17_Witness ==
    /\ last.op = "mod_op"
    /\ ~last.literal
    /\ last.x = IntV(7)
    /\ last.y = IntV(-2)
    /\ last.value = IntV(-1)

(* C18: with a zero denominator floordiv_op(x, 0) and mod_op(x, 0) evaluate *)
(* to 0 for every non-null x and to NULL for a NULL x, never to the         *)
(* engine's division-by-zero error, whether the zero is a literal or the    *)
(* value of a column.                                                       *)
C18_ZeroDenominator ==
    (last.op \in {"floordiv_op", "mod_op"} /\ last.y = IntV(0))
    => /\ last.value.k # "error"
       /\ last.x.k = "int" => last.value = IntV(0)
       /\ last.x.k = "null" => last.value = NullV

\* mod_op has just been evaluated on a row whose divisor column holds 0 and
\* whose dividend is negative.
C18_Witness ==
    /\ last.op = "mod_op"
    /\ ~last.literal
    /\ last.y = IntV(0)
    /\ last.x = IntV(-3)
    /\ last.value = IntV(0)
    /\ last.expr.op = "SearchedCase"

----------------------------------------------------------------------------
(* C19: all_op over a column is TRUE exactly when no non-null element is 0  *)
(* and any_op is TRUE exactly when some non-null element is not 0; over an  *)
(* empty or all-NULL column all_op is TRUE and any_op is FALSE; neither is  *)
(* ever NULL.                                                               *)
C19_AllAny ==
    LET rows == last.column.rows
        nonnull == {k \in DOMAIN rows : rows[k].k # "null"}
    IN  /\ last.op = "all_op"
           => /\ last.value.k = "bool"
              /\ (last.value.v = 1) = (\A k \in nonnull : rows[k].v # 0)
              /\ nonnull = {} => last.value = BoolV(TRUE)
        /\ last.op = "any_op"
           => /\ last.value.k = "bool"
              /\ (last.value.v = 1) = (\E k \in nonnull : rows[k].v # 0)
              /\ nonnull = {} => last.value = BoolV(FALSE)

\* all_op has just been evaluated over a column of NULLs only.
C19_Witness ==
    /\ last.op = "all_op"
    /\ last.column.rows = <<NullV, NullV>>
    /\ last.value = BoolV(TRUE)

(* C20: sum_op and mean_op on a column whose type is not numeric raise      *)
(* ValueError without building an aggregate expression and without any      *)
(* remote execution; on a numeric column they return the aggregate          *)
(* expression over the column.                                              *)
C20_NumericGuard ==
    last.op \in {"sum_op", "mean_op"}
    => /\ nexec = 0
       /\ ~is_numeric(last.column.type)
          => last.out = "ValueError" /\ last.expr = NoExpr
       /\ is_numeric(last.column.type)
          => /\ last.out = "ok"
             /\ last.expr = Node(IF last.op = "sum_op" THEN "Sum" ELSE "Mean",
                                 <<ColumnRef("c")>>)

\* sum_op has just been refused on a string column.
C20_Witness ==
    /\ last.op = "sum_op"
    /\ last.column.type = "string"
    /\ last.out = "ValueError"

----------------------------------------------------------------------------
(* C21: the names get_standardized_ids returns are pairwise distinct across *)
(* the index ids and the column ids together, and a call with the same      *)
(* labels returns the same ids.                                             *)
C21_IdsDistinct ==
    /\ [](LET ids == last.idx_ids \o last.col_ids
          IN  \A j, k \in DOMAIN ids : j # k => ids[j] # ids[k])
    /\ [][(last.op = "get_standardized_ids" /\ GetStandardizedIds)
          => /\ last'.col_ids = last.col_ids
             /\ last'.idx_ids = last.idx_ids]_vars

\* The same name was passed three times, as an index label and as two column
\* labels, next to the name its first duplicate is given.
C21_Witness ==
    /\ last.op = "get_standardized_ids"
    /\ last.idx_labels = <<StrLabel(<<"a">>), StrLabel(<<"a", ".", "1">>)>>
    /\ last.col_labels = <<StrLabel(<<"a">>), StrLabel(<<"a">>)>>
    /\ last.col_ids = << <<"a", ".", "1", ".", "1">>, <<"a", ".", "2">> >>

\* The name a label stands for before deduplication.
StandardBase(label, sentinel) ==
    ReplaceSpaces(IF label.kind = "None" THEN sentinel ELSE str(label))

IsPrefix(p, q) == Len(p) <= Len(q) /\ SubSeq(q, 1, Len(p)) = p

(* C22: get_standardized_ids applied to names that are strings without a   *)
(* space and pairwise distinct across both lists, as its own output is,     *)
(* returns the same column ids and the same index ids, in the same order.   *)
C22_Idempotent ==
    LET labels == last.idx_labels \o last.col_labels
        standardized ==
            /\ \A k \in DOMAIN labels :
                  /\ labels[k].kind = "str"
                  /\ \A c \in DOMAIN labels[k].s : labels[k].s[c] # " "
            /\ \A j, k \in DOMAIN labels : j # k => labels[j] # labels[k]
    IN  /\ (last.op = "get_standardized_ids" /\ last.again) => standardized
        /\ (last.op = "get_standardized_ids" /\ standardized)
           => /\ last.col_ids = [k \in DOMAIN last.col_labels |-> last.col_labels[k].s]
              /\ last.idx_ids = [k \in DOMAIN last.idx_labels |-> last.idx_labels[k].s]

\* get_standardized_ids has just been applied to ids it had returned for
\* labels with a None, a space and a duplicate.
C22_Witness ==
    /\ last.op = "get_standardized_ids"
    /\ last.again
    /\ last.idx_ids = <<UNNAMED_INDEX_ID, <<"a", "_", "b">> >>
    /\ last.col_ids = << <<"a", "_", "b", ".", "1">>, UNNAMED_COLUMN_ID>>

----------------------------------------------------------------------------
\* The number of "." and ":" characters of a table identifier.
Separators(table) == Cardinality({k \in DOMAIN table : table[k] \in {".", ":"}})

----------------------------------------------------------------------------
\* The index object Block b holds in heaps bs, ix.
IndexOf(bs, ix, b) == ix[bs[b].index]

(* C25: the display name of a labeled index is kept apart from its index    *)
(* column: a Block that becomes labeled while it holds the implicit index   *)
(* gets the index column identifier as display name; assigning a display    *)
(* name changes neither the index column nor index_columns; and an          *)
(* assignment to expr or a replace_value_columns call on a labeled Block    *)
(* leaves the display name as it was; compute labels the row axis with it.  *)
C25_DisplayNameSurvives ==
    [][/\ \A b \in DOMAIN blocks, ic \in IndexColumnChoices :
            (/\ Len(ic) = 1
             /\ IndexOf(blocks, idxs, b).kind = "ImplicitJoiner"
             /\ SetIndexColumns(b, ic))
            => /\ IndexOf(blocks', idxs', b).kind = "Index"
               /\ IndexOf(blocks', idxs', b).name = ic[1]
       /\ \A b \in DOMAIN blocks, name \in DisplayNames :
            SetIndexName(b, name)
            => /\ IndexOf(blocks', idxs', b).name = name
               /\ IndexOf(blocks', idxs', b).index_column
                      = IndexOf(blocks, idxs, b).index_column
               /\ blocks'[b].index_columns = blocks[b].index_columns
       /\ \A b \in DOMAIN blocks :
            (/\ IndexOf(blocks, idxs, b).kind = "Index"
             /\ last'.op \in {"set_expr", "replace_value_columns"}
             /\ last'.blk = b)
            => /\ IndexOf(blocks', idxs', b).kind = "Index"
               /\ IndexOf(blocks', idxs', b).name = IndexOf(blocks, idxs, b).name
       /\ \A b \in DOMAIN blocks :
            (/\ last'.op \in {"compute", "compute_keys"}
             /\ last'.blk = b
             /\ last'.out = "ok"
             /\ Len(blocks[b].index_columns) = 1)
            => last'.df.index_name = IndexOf(blocks, idxs, b).name]_vars

\* replace_value_columns has just rebuilt the tree of a labeled Block whose
\* display name had been changed to something other than its index column.
C25_Witness ==
    /\ last.op = "replace_value_columns"
    /\ last.out = "ok"
    /\ IndexOf(blocks, idxs, last.blk).kind = "Index"
    /\ IndexOf(blocks, idxs, last.blk).name = "label"
    /\ IndexOf(blocks, idxs, last.blk).index_column = "id"
    /\ IndexOf(blocks, idxs, last.blk).expr = Len(exprs)

(* C29: a Block returned by copy, with or without replacement value         *)
(* columns, has an index with the display name of the original Block's      *)
(* index, also when that name is not the index column identifier.           *)
C29_CopyKeepsDisplayName ==
    [][\A b \in DOMAIN blocks :
          (/\ last'.op \in {"copy", "copy_with"}
           /\ last'.blk = b
           /\ last'.out = "ok"
           /\ IndexOf(blocks, idxs, b).kind = "Index")
          => /\ IndexOf(blocks', idxs', last'.ret).kind = "Index"
             /\ IndexOf(blocks', idxs', last'.ret).name
                    = IndexOf(blocks, idxs, b).name]_vars

----------------------------------------------------------------------------
\* All elements of the lists of a sequence of lists, in order.
RECURSIVE Flatten(_)
Flatten(lists) ==
    IF lists = <<>> THEN <<>> ELSE lists[1] \o Flatten(Tail(lists))

\* The number of positions of seq that hold x.
Occurrences(seq, x) == Cardinality({k \in DOMAIN seq : seq[k] = x})

(* C26: add_api_method and get_and_reset_api_methods are mutually exclusive *)
(* on the method list: every name inserted is in exactly one place, once:   *)
(* pending in the list, copied by the one call that is about to return it,  *)
(* or in exactly one returned list; every returned list and the pending     *)
(* list hold the names most recently inserted first; and the list is empty  *)
(* when a reset has cleared it.                                             *)
C26_LogAtomic ==
    /\ [](LET held == Flatten(last.returned)
                        \o Flatten([t \in Threads |->
                              IF threads[t].pc = "get_return"
                              THEN threads[t].previous ELSE <<>>])
                        \o globals.api_methods
          IN  /\ \A k \in DOMAIN last.recorded :
                    Occurrences(held, last.recorded[k]) = 1
              /\ Len(held) = Len(last.recorded)
              /\ \A r \in DOMAIN last.returned :
                    \A j, k \in DOMAIN last.returned[r] :
                       j < k => last.returned[r][j] > last.returned[r][k]
              /\ \A j, k \in DOMAIN globals.api_methods :
                    j < k => globals.api_methods[j] > globals.api_methods[k]
              /\ Cardinality({t \in Threads : threads[t].pc \in
                     {"add_insert", "add_truncate", "get_copy", "get_clear"}}) <= 1)
    /\ [][\A t \in Threads : GetClear(t) => globals'.api_methods = <<>>]_vars

\* A reset has returned two names, most recent first, after an earlier reset
\* had returned one.
C26_Witness ==
    /\ last.op = "get_and_reset_api_methods"
    /\ last.returned = << <<1>>, <<3, 2>> >>
    /\ globals.api_methods = <<>>

----------------------------------------------------------------------------
\* The sessions that are connected and not closed.
OpenSessions == {s \in DOMAIN globals.sessions : globals.sessions[s].closed = 0}

(* C27: at most one global session exists at a time: the sessions that are  *)
(* open are the global one alone, so calls of get_global_session with no    *)
(* reset between them connect one session, and a call that no reset         *)
(* overlapped returns that session; reset_session closes the session that   *)
(* was started exactly once and leaves none, and a session connected later  *)
(* is a new one, never a closed one.                                        *)
C27_OneGlobalSession ==
    /\ [](/\ OpenSessions = {globals.global_session} \ {0}
          /\ \A s \in DOMAIN globals.sessions : globals.sessions[s].closed <= 1
          /\ Len(globals.sessions) <= last.resets + 1)
    /\ [][\A t \in Threads :
            /\ (GsReturn(t) /\ threads[t].resets = last.resets) =>
                  /\ last'.ret # 0
                  /\ last'.ret = globals.global_session
                  /\ last'.ret \in OpenSessions
            /\ (GsCheck(t) /\ globals.global_session = 0) =>
                  /\ globals'.global_session \notin DOMAIN globals.sessions
                  /\ globals'.sessions[globals'.global_session].closed = 0
            /\ (GsCheck(t) /\ globals.global_session # 0) =>
                  globals'.sessions = globals.sessions
            /\ (RsBody(t) /\ globals.global_session # 0) =>
                  /\ globals'.sessions[globals.global_session].closed = 1
                  /\ globals'.global_session = 0
            /\ (RsBody(t) /\ globals.global_session = 0) =>
                  globals'.sessions = globals.sessions]_vars

\* After a reset closed session 1, a call returned the fresh session 2 while
\* the other thread is about to return it too.
C27_Witness ==
    /\ last.op = "get_global_session"
    /\ last.ret = 2
    /\ last.resets = 1
    /\ globals.sessions[1].closed = 1
    /\ \E t \in Threads : threads[t].pc = "gs_return"

(* C28: under any interleaving of get_global_session and reset_session,     *)
(* every get_global_session call returns a session, never None.             *)
C28_NeverNone ==
    last.op = "get_global_session" => last.ret # 0

----------------------------------------------------------------------------
(* C30: the options a create_bqml_model call uses depend only on its        *)
(* arguments: with train_y omitted and no options argument the statement    *)
(* has no input_label_cols option, whatever calls came before, and a dict   *)
(* supplied by the caller is the same after the call as before it.          *)
C30_OptionsFromArguments ==
    last.op = "create_bqml_model" =>
       /\ (last.train_y.none /\ ~last.options.given) =>
             "input_label_cols" \notin Keys(last.used)
       /\ last.options.given => last.caller_dict = last.options.dict

====
